---- MODULE Spec2Model ----
(***************************************************************************)
(* peernet-calc: the route-counting functions and the interception /      *)
(* success probability engine of core.py, as a state machine whose steps  *)
(* are calls of the module's functions.  A state records the function     *)
(* that was called last, the arguments it was called with and what the    *)
(* call produced: an int, a float or a raised exception.                  *)
(***************************************************************************)
EXTENDS Integers, Sequences, FiniteSets, TLC

VARIABLES op, args, result, cache_a, cache_n, stack, evals

vars == <<op, args, result, cache_a, cache_n, stack, evals>>

(* The state of the memoized functions: their caches, the frames of the   *)
(* call in progress and the bodies started so far.                        *)
mssvars == <<cache_a, cache_n, stack, evals>>

(* Arguments are drawn from (-MinArg)..MaxArg. *)
MaxArg == 7
MinArg == 3
MinM == 1

ArgRange == (0 - MinArg)..MaxArg

-----------------------------------------------------------------------------
(* Python evaluates an operand once, before the operation that uses it:    *)
(* f(a) and f(a, b) with the operands bound to their values first.         *)
Call1(f(_), a) == CHOOSE r \in {f(x) : x \in {a}} : TRUE
Call2(f(_, _), a, b) == CHOOSE r \in {f(x, y) : x \in {a}, y \in {b}} : TRUE

-----------------------------------------------------------------------------
(* Natural numbers of any size, as sequences of limbs below 2^LimbBits,    *)
(* least significant limb first.                                           *)

LimbBits == 15

W == 2 ^ LimbBits

Limb(a, i) == IF i >= 1 /\ i <= Len(a) THEN a[i] ELSE 0

(* Index of the highest limb that is not 0; 0 for the number 0. *)
Top(a) ==
    IF \A i \in 1..Len(a) : a[i] = 0 THEN 0
    ELSE CHOOSE i \in 1..Len(a) : a[i] # 0 /\ \A k \in (i + 1)..Len(a) : a[k] = 0

BitLen(a) ==
    LET h == Top(a)
    IN  IF h = 0 THEN 0
        ELSE LimbBits * (h - 1) +
             (CHOOSE b \in 1..LimbBits : a[h] < 2 ^ b /\ a[h] >= 2 ^ (b - 1))

ShiftLeft(a, k) ==
    LET qs == k \div LimbBits
        r  == k % LimbBits
    IN  [i \in 1..(Len(a) + qs + 1) |->
            ((Limb(a, i - qs) * 2 ^ r) % W) + (Limb(a, i - qs - 1) \div 2 ^ (LimbBits - r))]
        \o << >>

ShiftRight(a, k) ==
    LET qs == k \div LimbBits
        r  == k % LimbBits
    IN  [i \in 1..Len(a) |->
            (Limb(a, i + qs) \div 2 ^ r) + (Limb(a, i + qs + 1) % 2 ^ r) * 2 ^ (LimbBits - r)]
        \o << >>

(* The k lowest bits of a are all 0. *)
LowBitsZero(a, k) ==
    LET qs == k \div LimbBits
        r  == k % LimbBits
    IN  /\ \A i \in 1..qs : Limb(a, i) = 0
        /\ Limb(a, qs + 1) % 2 ^ r = 0

(* Bit k of a, bit 0 the lowest. *)
Bit(a, k) == (Limb(a, k \div LimbBits + 1) \div 2 ^ (k % LimbBits)) % 2

Fit(a, n) == [i \in 1..n |-> Limb(a, i)] \o << >>

MaxLen(a, b) == IF Len(a) > Len(b) THEN Len(a) ELSE Len(b)

(* The carry out of limb i, s being the limb by limb sums of two numbers. *)
RECURSIVE CarryOut(_, _)
CarryOut(s, i) ==
    IF i = 0 THEN 0
    ELSE IF s[i] # W - 1 THEN s[i] \div W
    ELSE CarryOut(s, i - 1)

BigAdd(a0, b0) ==
    Call1(LAMBDA s :
            [i \in 1..(Len(s) + 1) |-> (Limb(s, i) + CarryOut(s, i - 1)) % W] \o << >>,
          Call2(LAMBDA a, b : [i \in 1..MaxLen(a, b) |-> Limb(a, i) + Limb(b, i)] \o << >>,
                a0, b0))


RECURSIVE SubFrom(_, _, _, _, _)
SubFrom(a, b, i, borrow, n) ==
    IF i > n THEN << >>
    ELSE LET t == Limb(a, i) - Limb(b, i) - borrow
         IN  << t % W >> \o SubFrom(a, b, i + 1, IF t < 0 THEN 1 ELSE 0, n)

(* a - b for a >= b. *)
BigSub(a, b) == SubFrom(a, b, 1, 0, MaxLen(a, b))

BigLess(a, b) ==
    LET n == MaxLen(a, b)
        d == {i \in 1..n : Limb(a, i) # Limb(b, i)}
    IN  /\ d # {}
        /\ LET h == CHOOSE i \in d : \A k \in d : k <= i
           IN  Limb(a, h) < Limb(b, h)

(* Three limbs hold any int below 2^31. *)
BigOfInt(v) == << v % W, (v \div W) % W, v \div (W * W) >>
IntOfBig(a) == Limb(a, 1) + W * Limb(a, 2) + W * W * Limb(a, 3)

(* a without its high limbs that are 0: the one sequence that stands for   *)
(* the number (<< >> for 0).                                               *)
BigNorm(a0) == Call1(LAMBDA a : SubSeq(a, 1, Top(a)), a0)

(* The sums of the low and of the high halves of s[lo..hi]. *)
RECURSIVE SumLow(_, _, _)
SumLow(s, lo, hi) ==
    IF lo > hi THEN 0
    ELSE IF lo = hi THEN s[lo] % W
    ELSE SumLow(s, lo, (lo + hi) \div 2) + SumLow(s, (lo + hi) \div 2 + 1, hi)

RECURSIVE SumHigh(_, _, _)
SumHigh(s, lo, hi) ==
    IF lo > hi THEN 0
    ELSE IF lo = hi THEN s[lo] \div W
    ELSE SumHigh(s, lo, (lo + hi) \div 2) + SumHigh(s, (lo + hi) \div 2 + 1, hi)

(* a * b: column c collects the limb products a[i] * b[c + 1 - i], low and *)
(* high halves apart; the columns are then carried over.                   *)
BigMul(a0, b0) ==
    Call2(LAMBDA a, b :
      LET n == Len(a) + Len(b)
          first(c) == IF c > Len(b) THEN c + 1 - Len(b) ELSE 1
          last(c)  == IF c < Len(a) THEN c ELSE Len(a)
      IN  Call1(LAMBDA cols :
            Call1(LAMBDA t :
              Call1(LAMBDA u :
                      BigNorm(BigAdd([c \in 1..n |-> u[c] % W] \o << >>,
                                     [c \in 1..n |-> Limb(u, c - 1) \div W] \o << >>)),
                    [c \in 1..n |-> (t[c] % W) + (Limb(t, c - 1) \div W)] \o << >>),
              [c \in 1..n |-> cols[c][1] + (IF c > 1 THEN cols[c - 1][2] ELSE 0)] \o << >>),
            [c \in 1..n |->
                Call1(LAMBDA p : << SumLow(p, 1, Len(p)), SumHigh(p, 1, Len(p)) >>,
                      [i \in 1..(last(c) - first(c) + 1) |->
                          a[first(c) + i - 1] * b[c + 2 - first(c) - i]] \o << >>)]
            \o << >>),
      a0, b0)

RECURSIVE BigPow(_, _)
BigPow(a, e) == IF e = 0 THEN << 1 >> ELSE BigMul(a, BigPow(a, e - 1))

(* Long division goes ChunkBits bits a step, so that a remainder times     *)
(* 2^ChunkBits stays below 2^31 for every divisor below 2^26.              *)
ChunkBits == 5

(* r * W + limb divided by q, ChunkBits bits a step: quotient and remainder. *)
DivLimb(r0, limb, q) ==
    LET c1 == limb \div (2 ^ ChunkBits * 2 ^ ChunkBits)
        c2 == (limb \div 2 ^ ChunkBits) % 2 ^ ChunkBits
        c3 == limb % 2 ^ ChunkBits
    IN  Call1(LAMBDA t1 :
          Call1(LAMBDA t2 :
            Call1(LAMBDA t3 :
                    << ((t1 \div q) * 2 ^ ChunkBits + t2 \div q) * 2 ^ ChunkBits + t3 \div q,
                       t3 % q >>,
                  (t2 % q) * 2 ^ ChunkBits + c3),
            (t1 % q) * 2 ^ ChunkBits + c2),
          r0 * 2 ^ ChunkBits + c1)

(* Limbs hi, hi - 1, ..., lo of a divided by q with r0 carried in, the     *)
(* upper half before the lower: the quotient's limbs, and the remainder.   *)
RECURSIVE DivFrom(_, _, _, _, _)
DivFrom(a, q, lo, hi, r0) ==
    IF lo > hi THEN << << >>, r0 >>
    ELSE IF lo = hi THEN Call1(LAMBDA d : << << d[1] >>, d[2] >>, DivLimb(r0, a[lo], q))
    ELSE Call1(LAMBDA up :
                 Call1(LAMBDA dn : << dn[1] \o up[1], dn[2] >>,
                       DivFrom(a, q, lo, (lo + hi) \div 2, up[2])),
               DivFrom(a, q, (lo + hi) \div 2 + 1, hi, r0))

(* << a // q, a % q >> for an int q > 0. *)
BigDivMod(a0, q) ==
    Call1(LAMBDA a :
            Call1(LAMBDA d : << BigNorm(d[1]), d[2] >>, DivFrom(a, q, 1, Len(a), 0)),
          a0)

-----------------------------------------------------------------------------
(* Python floats: IEEE 754 binary64.  A float is sign s, exponent e and    *)
(* a mantissa m of MantBits bits in MantLimbs limbs, worth                 *)
(* (-1)^s * m * 2^e with 2^52 <= m < 2^53; 0.0 is FlZero (-0.0, which      *)
(* compares equal to 0.0, is not told apart).  The values of this module   *)
(* stay far inside binary64's exponent range, so there is neither          *)
(* overflow nor a subnormal.                                               *)

MantBits == 53
MantLimbs == 4

FlZero == [s |-> 0, e |-> 0, m |-> [i \in 1..MantLimbs |-> 0] \o << >>]

FlIsZero(x) == \A i \in 1..MantLimbs : x.m[i] = 0

(* a * 2^e with sign s, rounded to a float, a truncated to MantBits bits:  *)
(* what IEEE 754 and Python never do.                                      *)
FlRound_truncating(s, a0, e, sticky) ==
    Call2(LAMBDA a, len :
            IF len = 0 THEN FlZero
            ELSE IF len <= MantBits
            THEN [s |-> s, e |-> e - (MantBits - len),
                  m |-> Fit(ShiftLeft(a, MantBits - len), MantLimbs)]
            ELSE [s |-> s, e |-> e + (len - MantBits),
                  m |-> Fit(ShiftRight(a, len - MantBits), MantLimbs)],
          a0, BitLen(a0))

(* a * 2^e with sign s (plus, when sticky, a rest below a's lowest bit),   *)
(* rounded to the nearest float, ties to the even mantissa.                *)
FlRound(s, a0, e, sticky) ==
    Call2(LAMBDA a, len :
            IF len = 0 THEN FlZero
            ELSE IF len <= MantBits
            THEN [s |-> s, e |-> e - (MantBits - len),
                  m |-> Fit(ShiftLeft(a, MantBits - len), MantLimbs)]
            ELSE LET d    == len - MantBits
                     half == Bit(a, d - 1) = 1
                     rest == sticky \/ ~LowBitsZero(a, d - 1)
                 IN  Call1(LAMBDA q :
                       Call1(LAMBDA r :
                               IF BitLen(r) > MantBits
                               THEN [s |-> s, e |-> e + d + 1,
                                     m |-> Fit(ShiftRight(r, 1), MantLimbs)]
                               ELSE [s |-> s, e |-> e + d, m |-> Fit(r, MantLimbs)],
                             IF half /\ (rest \/ Bit(q, 0) = 1)
                             THEN BigAdd(q, << 1 >>) ELSE q),
                       ShiftRight(a, d)),
          a0, BitLen(a0))

(* Long division, ChunkBits bits a step: the remainders after 0, 1, ..., n *)
(* steps of dividing by q, seq holding the first of them.                  *)
FracLimbs == 6

RECURSIVE Rems(_, _, _)
Rems(seq, q, n) ==
    IF Len(seq) > n THEN seq
    ELSE Rems(Append(seq, (seq[Len(seq)] * 2 ^ ChunkBits) % q), q, n)

(* p / q for ints p and q # 0, correctly rounded: the quotient to          *)
(* FracLimbs limbs behind the binary point, then FlRound.                  *)
FlDivInt(p0, q0) ==
    Call2(LAMBDA p, q :
            LET s    == IF p # 0 /\ ((p < 0) # (q < 0)) THEN 1 ELSE 0
                P    == IF p < 0 THEN 0 - p ELSE p
                Q    == IF q < 0 THEN 0 - q ELSE q
                per  == LimbBits \div ChunkBits
                n    == FracLimbs * per
            IN  Call1(LAMBDA rs :
                        LET d(i) == (rs[i] * 2 ^ ChunkBits) \div Q
                            limb(t) == (d(per * t - 2) * 2 ^ ChunkBits + d(per * t - 1))
                                       * 2 ^ ChunkBits + d(per * t)
                            frac == [i \in 1..FracLimbs |-> limb(FracLimbs + 1 - i)] \o << >>
                        IN  FlRound(s, frac \o BigOfInt(P \div Q),
                                    0 - FracLimbs * LimbBits, rs[n + 1] # 0),
                      Rems(<< P % Q >>, Q, n)),
          p0, q0)

FlNeg(x) == IF FlIsZero(x) THEN x ELSE [x EXCEPT !.s = 1 - @]

(* x + y: the exact sum, rounded once. *)
FlAdd(x0, y0) ==
    Call2(LAMBDA x, y :
            IF FlIsZero(x) THEN y
            ELSE IF FlIsZero(y) THEN x
            ELSE LET e == IF x.e < y.e THEN x.e ELSE y.e
                 IN  Call2(LAMBDA xa, ya :
                             IF x.s = y.s THEN FlRound(x.s, BigAdd(xa, ya), e, FALSE)
                             ELSE IF BigLess(xa, ya)
                                  THEN FlRound(y.s, BigSub(ya, xa), e, FALSE)
                             ELSE FlRound(x.s, BigSub(xa, ya), e, FALSE),
                           ShiftLeft(x.m, x.e - e), ShiftLeft(y.m, y.e - e)),
          x0, y0)

FlOne == FlDivInt(1, 1)

(* math.floor of a float, as an int. *)
FlFloor(x0) ==
    Call1(LAMBDA x :
            IF FlIsZero(x) THEN 0
            ELSE IF x.e >= 0 THEN (1 - 2 * x.s) * IntOfBig(ShiftLeft(x.m, x.e))
            ELSE LET t == IntOfBig(ShiftRight(x.m, 0 - x.e))
                 IN  IF x.s = 0 THEN t
                     ELSE IF LowBitsZero(x.m, 0 - x.e) THEN 0 - t ELSE 0 - t - 1,
          x0)

-----------------------------------------------------------------------------
(* Python values: an int (tag "int", its value in num), a float (tag       *)
(* "float", its value in fl) or a raised exception (tag "raise", the       *)
(* exception's class in exc).                                              *)

PyInt(v) == [tag |-> "int", num |-> v, exc |-> "", fl |-> FlZero]

PyFloat(x) == [tag |-> "float", num |-> 0, exc |-> "", fl |-> x]

PyRaise(e) == [tag |-> "raise", num |-> 0, exc |-> e, fl |-> FlZero]

PyNone      == [tag |-> "none", num |-> 0, exc |-> "", fl |-> FlZero]
IsInt(r)    == r.tag = "int"
IsFloat(r)  == r.tag = "float"
IsRaise(r)  == r.tag = "raise"

(* float(v) for a number v. *)
AsFloat(v) == IF IsInt(v) THEN FlDivInt(v.num, 1) ELSE v.fl

(* bool(v), 0 > v and -v for a number v. *)
Truthy(v)   == IF IsInt(v) THEN v.num # 0 ELSE ~FlIsZero(v.fl)
Negative(v) == IF IsInt(v) THEN v.num < 0 ELSE v.fl.s = 1
PyNeg(v0)   ==
    Call1(LAMBDA v : IF IsInt(v) THEN PyInt(0 - v.num) ELSE PyFloat(FlNeg(v.fl)), v0)

Abs(x) == IF x < 0 THEN 0 - x ELSE x

(* int // int for a divisor other than 0: the floor of the quotient. *)
PyFloorDiv(a, b) ==
    LET q == Abs(a) \div Abs(b)
        exact == q * Abs(b) = Abs(a)
    IN  IF (a < 0) = (b < 0) THEN q
        ELSE IF exact THEN 0 - q ELSE 0 - q - 1

(* range(a, b) as the sequence a, a+1, ..., b-1. *)
range(a, b) == IF b > a THEN [i \in 1..(b - a) |-> a + i - 1] ELSE << >>

(* math.prod of a sequence of ints; 1 for the empty sequence. *)
RECURSIVE prod(_)
prod(s) == IF s = << >> THEN 1 ELSE Head(s) * prod(Tail(s))

(* base ** e for ints, e >= 0 (0 ** 0 = 1). *)
RECURSIVE PowNat(_, _)
PowNat(base, e) == IF e = 0 THEN 1 ELSE base * PowNat(base, e - 1)

(* int ** int: an int for e >= 0; for e < 0 the float nearest to           *)
(* 1 / base ** -e, and ZeroDivisionError when base is 0.                   *)
PyPow(base, e) ==
    IF e >= 0 THEN PyInt(PowNat(base, e))
    ELSE IF base = 0 THEN PyRaise("ZeroDivisionError")
    ELSE PyFloat(FlDivInt(1, PowNat(base, 0 - e)))

(* x - y for two numbers: a float as soon as one operand is a float. *)
PySub(x0, y0) ==
    Call2(LAMBDA x, y :
            IF IsInt(x) /\ IsInt(y) THEN PyInt(x.num - y.num)
            ELSE PyFloat(FlAdd(AsFloat(x), FlNeg(AsFloat(y)))),
          x0, y0)

(* x // n for a number x and an int n: ZeroDivisionError for n = 0, else   *)
(* the floor of the quotient, of x's type.  For a float x and n > 0,       *)
(* floor(x / n) = floor(floor(x) / n), and x // n = (-x) // (-n).          *)
PyFloorDivBy(x0, n) ==
    Call1(LAMBDA x :
            IF n = 0 THEN PyRaise("ZeroDivisionError")
            ELSE IF IsInt(x) THEN PyInt(PyFloorDiv(x.num, n))
            ELSE IF n > 0 THEN PyFloat(FlDivInt(PyFloorDiv(FlFloor(x.fl), n), 1))
            ELSE PyFloat(FlDivInt(PyFloorDiv(FlFloor(FlNeg(x.fl)), 0 - n), 1)),
          x0)

-----------------------------------------------------------------------------
(* 1. Tor / I2P *)

f_tor_off_by_one(n, k) ==
    IF k < 0 \/ n < 2 \/ k > n - 2 THEN PyInt(0)
    ELSE PyInt(prod([i \in 1..Len(range(1, k + 1)) |-> n - range(1, k + 1)[i]]))

f_tor(n, k) ==
    IF k < 0 \/ n < 2 \/ k > n - 2 THEN PyInt(0)
    ELSE PyInt(prod([i \in 1..Len(range(1, k + 1)) |-> n - range(1, k + 1)[i] - 1]))

f_i2p_not_squared(n, k) ==
    LET val == f_tor(n, k) IN PyInt(val.num * 2)

f_i2p(n, k) ==
    LET val == f_tor(n, k) IN PyInt(val.num * val.num)

(* 2. F1(n, j): no repeated nodes *)

f1_no_rep_wrong_inner(n, j) ==
    IF n < j THEN PyInt(0)
    ELSE IF j = 1 THEN PyInt(IF n - 2 > 0 THEN n - 2 ELSE 0)
    ELSE IF j = 2 THEN PyInt((n - 1) + (n - 2) * (n - 2))
    ELSE IF j = 3 THEN PyInt((n - 2) * ((n - 1) + (n - 2) + (n - 2) * (n - 3)))
    ELSE IF 4 <= j /\ j <= n THEN
        LET inner == (n - 1) + (j - 2) * (n - 2) + (n - 2) * (n - j - 1)
        IN  PyInt(inner * prod([i \in 1..Len(range(2, j)) |-> n - range(2, j)[i]]))
    ELSE PyRaise("ValueError")

f1_no_rep_raise_first(n, j) ==
    IF j = 1 /\ n >= j THEN PyInt(IF n - 2 > 0 THEN n - 2 ELSE 0)
    ELSE IF j = 2 /\ n >= j THEN PyInt((n - 1) + (n - 2) * (n - 2))
    ELSE IF j = 3 /\ n >= j THEN PyInt((n - 2) * ((n - 1) + (n - 2) + (n - 2) * (n - 3)))
    ELSE IF 4 <= j /\ j <= n THEN
        LET inner == (n - 1) + (j - 2) * (n - 2) + (n - 2) * (n - j)
        IN  PyInt(inner * prod([i \in 1..Len(range(2, j)) |-> n - range(2, j)[i]]))
    ELSE IF j <= 3 /\ n < j THEN PyInt(0)
    ELSE PyRaise("ValueError")

f1_no_rep_no_raise(n, j) ==
    IF n < j THEN PyInt(0)
    ELSE IF j = 1 THEN PyInt(IF n - 2 > 0 THEN n - 2 ELSE 0)
    ELSE IF j = 2 THEN PyInt((n - 1) + (n - 2) * (n - 2))
    ELSE IF j = 3 THEN PyInt((n - 2) * ((n - 1) + (n - 2) + (n - 2) * (n - 3)))
    ELSE IF 4 <= j /\ j <= n THEN
        LET inner == (n - 1) + (j - 2) * (n - 2) + (n - 2) * (n - j)
        IN  PyInt(inner * prod([i \in 1..Len(range(2, j)) |-> n - range(2, j)[i]]))
    ELSE PyInt(0)

f1_no_rep_minus_square(n, j) ==
    IF n < j THEN PyInt(0)
    ELSE IF j = 1 THEN PyInt(IF n - 2 > 0 THEN n - 2 ELSE 0)
    ELSE IF j = 2 THEN PyInt((n - 1) - (n - 2) * (n - 2))
    ELSE IF j = 3 THEN PyInt((n - 2) * ((n - 1) + (n - 2) + (n - 2) * (n - 3)))
    ELSE IF 4 <= j /\ j <= n THEN
        LET inner == (n - 1) + (j - 2) * (n - 2) + (n - 2) * (n - j)
        IN  PyInt(inner * prod([i \in 1..Len(range(2, j)) |-> n - range(2, j)[i]]))
    ELSE PyRaise("ValueError")

f1_no_rep_raise_nonpositive(n, j) ==
    IF j <= 0 THEN PyRaise("ValueError")
    ELSE IF n < j THEN PyInt(0)
    ELSE IF j = 1 THEN PyInt(IF n - 2 > 0 THEN n - 2 ELSE 0)
    ELSE IF j = 2 THEN PyInt((n - 1) + (n - 2) * (n - 2))
    ELSE IF j = 3 THEN PyInt((n - 2) * ((n - 1) + (n - 2) + (n - 2) * (n - 3)))
    ELSE LET inner == (n - 1) + (j - 2) * (n - 2) + (n - 2) * (n - j)
         IN  PyInt(inner * prod([i \in 1..Len(range(2, j)) |-> n - range(2, j)[i]]))

f1_no_rep_band_three_shifted(n, j) ==
    IF n < j THEN PyInt(0)
    ELSE IF j = 1 THEN PyInt(IF n - 2 > 0 THEN n - 2 ELSE 0)
    ELSE IF j = 2 THEN PyInt((n - 1) + (n - 2) * (n - 2))
    ELSE IF j = 3 THEN PyInt((n - 2) * ((n - 1) + (n - 2) + (n - 2) * (n - 4)))
    ELSE IF 4 <= j /\ j <= n THEN
        LET inner == (n - 1) + (j - 2) * (n - 2) + (n - 2) * (n - j)
        IN  PyInt(inner * prod([i \in 1..Len(range(2, j)) |-> n - range(2, j)[i]]))
    ELSE PyRaise("ValueError")

f1_no_rep(n, j) ==
    IF n < j THEN PyInt(0)
    ELSE IF j = 1 THEN PyInt(IF n - 2 > 0 THEN n - 2 ELSE 0)
    ELSE IF j = 2 THEN PyInt((n - 1) + (n - 2) * (n - 2))
    ELSE IF j = 3 THEN PyInt((n - 2) * ((n - 1) + (n - 2) + (n - 2) * (n - 3)))
    ELSE IF 4 <= j /\ j <= n THEN
        LET inner == (n - 1) + (j - 2) * (n - 2) + (n - 2) * (n - j)
        IN  PyInt(inner * prod([i \in 1..Len(range(2, j)) |-> n - range(2, j)[i]]))
    ELSE PyRaise("ValueError")

(* 3. F2(j, n): repeated nodes allowed *)

(* The numerator (n - 1) ** (j + 1) - (-1) ** (j + 1), left operand first. *)
f2_numerator(j, n) ==
    Call2(LAMBDA a, b :
            IF IsRaise(a) THEN a
            ELSE IF IsRaise(b) THEN b
            ELSE PySub(a, b),
          PyPow(n - 1, j + 1), PyPow(0 - 1, j + 1))

f2_rep_plus_sign(j, n) ==
    Call2(LAMBDA a, b :
            IF IsRaise(a) THEN a
            ELSE IF IsRaise(b) THEN b
            ELSE PyFloorDivBy(PySub(a, PyNeg(b)), n),
          PyPow(n - 1, j + 1), PyPow(0 - 1, j + 1))

f2_rep(j, n) ==
    Call1(LAMBDA numerator :
            IF IsRaise(numerator) THEN numerator ELSE PyFloorDivBy(numerator, n),
          f2_numerator(j, n))

-----------------------------------------------------------------------------
(* 4. Interception / success *)

(* A selector is True, False or one of the module's two-argument functions *)
(* passed as a callable; Omitted stands for a call that passes none.       *)
Callables == {"f_tor", "f_i2p", "f1_no_rep", "f2_rep"}
Selectors == {"True", "False"} \cup Callables
Omitted   == "omitted"

callable(selector) == selector \in Callables

(* selector(a, b) for a callable selector: positional arguments. *)
call_selector(selector, a, b) ==
    CASE selector = "f_tor"     -> f_tor(a, b)
      [] selector = "f_i2p"     -> f_i2p(a, b)
      [] selector = "f1_no_rep" -> f1_no_rep(a, b)
      [] selector = "f2_rep"    -> f2_rep(a, b)

_total_routes_swapped(n, j, selector) ==
    IF callable(selector) THEN call_selector(selector, j, n)
    ELSE IF selector = "True" THEN f2_rep(j, n) ELSE f1_no_rep(n, j)

_total_routes(n, j, selector) ==
    IF callable(selector) THEN call_selector(selector, n, j)
    ELSE IF selector = "True" THEN f2_rep(j, n) ELSE f1_no_rep(n, j)

_safe_routes_guard_first(n, j, m, selector) ==
    IF n - m < 2 THEN PyInt(0)
    ELSE IF m = 0 THEN _total_routes(n, j, selector)
    ELSE _total_routes(n - m, j, selector)

_safe_routes_grown(n, j, m, selector) ==
    IF m = 0 THEN _total_routes(n, j, selector)
    ELSE IF n - m < 2 THEN PyInt(0)
    ELSE _total_routes(n + 1, j, selector)

_safe_routes(n, j, m, selector) ==
    IF m = 0 THEN _total_routes(n, j, selector)
    ELSE IF n - m < 2 THEN PyInt(0)
    ELSE _total_routes(n - m, j, selector)

(* max(d, 0): d unless 0 > d. *)
PyMax0(d0) == Call1(LAMBDA d : IF Negative(d) THEN PyInt(0) ELSE d, d0)

(* The int a route count holds: a count is an int, or a float that a       *)
(* floor division produced.                                                *)
CountOf(x) == IF IsInt(x) THEN x.num ELSE FlFloor(x.fl)

(* x / y for two route counts, y not 0: the float nearest to the quotient. *)
PyTrueDiv(x0, y0) ==
    Call2(LAMBDA x, y : PyFloat(FlDivInt(CountOf(x), CountOf(y))), x0, y0)

p_m_default == "True"

p_m_sum(n, j, m, selector) ==
    Call2(LAMBDA total, safe :
            IF IsRaise(total) THEN total
            ELSE IF IsRaise(safe) THEN safe
            ELSE PyMax0(PySub(total, PyNeg(safe))),
          _total_routes(n, j, selector), _safe_routes(n, j, m, selector))

p_m(n, j, m, selector) ==
    Call2(LAMBDA total, safe :
            IF IsRaise(total) THEN total
            ELSE IF IsRaise(safe) THEN safe
            ELSE PyMax0(PySub(total, safe)),
          _total_routes(n, j, selector), _safe_routes(n, j, m, selector))

vp_default == "True"

vp_unguarded(m, n, j, selector) ==
    Call2(LAMBDA total, num :
            IF IsRaise(total) THEN total
            ELSE IF IsRaise(num) THEN num
            ELSE IF ~Truthy(total) THEN PyRaise("ZeroDivisionError")
            ELSE PyTrueDiv(num, total),
          _total_routes(n, j, selector), p_m(n, j, m, selector))

vp(m, n, j, selector) ==
    Call1(LAMBDA total :
            IF IsRaise(total) THEN total
            ELSE IF Truthy(total)
                 THEN Call1(LAMBDA num : IF IsRaise(num) THEN num ELSE PyTrueDiv(num, total),
                            p_m(n, j, m, selector))
                 ELSE PyFloat(FlZero),
          _total_routes(n, j, selector))

vus_default == "True"

(* VUS as the safe share of the routes, total - PM over total: the same    *)
(* quantity as 1.0 - VP, rounded differently.                              *)
vus_safe_share(m, n, j, selector) ==
    Call1(LAMBDA total :
            IF IsRaise(total) THEN total
            ELSE IF Truthy(total)
                 THEN Call1(LAMBDA num :
                              IF IsRaise(num) THEN num
                              ELSE PyTrueDiv(PySub(total, num), total),
                            p_m(n, j, m, selector))
                 ELSE PyFloat(FlOne),
          _total_routes(n, j, selector))

vus(m, n, j, selector) ==
    Call1(LAMBDA v : IF IsRaise(v) THEN v ELSE PySub(PyFloat(FlOne), v),
          vp(m, n, j, selector))

-----------------------------------------------------------------------------
(* 6. The VP tab (vp_tab.py): its formulas, a single calculation and a     *)
(* sweep.                                                                  *)

(* The parameters of core.vp: a call binds its keyword arguments by them. *)
vp_parameters == << "m", "n", "j", "selector" >>

(* core.vp(m, n, j, name=value): the three positional arguments fill the   *)
(* first three parameters; a keyword that names none of the others is a    *)
(* TypeError, raised before the body runs.                                 *)
vp_keyword_call(m, n, j, name, value) ==
    IF \E i \in 4..Len(vp_parameters) : vp_parameters[i] = name
    THEN vp(m, n, j, value)
    ELSE PyRaise("TypeError")

vp_tor(m, n, j) ==
    Call1(LAMBDA total :
            Call1(LAMBDA safe :
                    Call1(LAMBDA intercepted :
                            IF Truthy(total) THEN PyTrueDiv(intercepted, total)
                            ELSE PyFloat(FlZero),
                          PyMax0(PySub(total, safe))),
                  IF m = 0 THEN total
                  ELSE IF n - m < 2 THEN PyInt(0)
                  ELSE f_tor(n - m, j)),
          IF n >= 3 THEN f_tor(n, j) ELSE PyInt(0))

(* The keys of FORMULAS in their order: F1 Tor-type, F3 without repeats,   *)
(* F4 with repeats.                                                        *)
FormulaNames == << "F1 Tor", "F3 no repeat", "F4 repeat" >>

FORMULAS(name, m, n, j) ==
    CASE name = "F1 Tor"       -> vp_tor(m, n, j)
      [] name = "F3 no repeat" -> vp_keyword_call(m, n, j, "repeat", "False")
      [] name = "F4 repeat"    -> vp_keyword_call(m, n, j, "repeat", "True")

(* f"{value:.4f}": the decimal with four places nearest to the float's     *)
(* exact value, ties to the even digit, as its sign and its count of       *)
(* ten-thousandths.                                                        *)
format_4f(x0) ==
    Call1(LAMBDA x :
            IF FlIsZero(x) THEN [neg |-> FALSE, units |-> 0]
            ELSE Call1(LAMBDA t :
                         LET k  == 0 - x.e
                             q  == IntOfBig(ShiftRight(t, k))
                             up == /\ Bit(t, k - 1) = 1
                                   /\ (~LowBitsZero(t, k - 1) \/ q % 2 = 1)
                         IN  [neg |-> x.s = 1, units |-> q + (IF up THEN 1 ELSE 0)],
                       BigMul(x.m, BigOfInt(10000))),
          x0)

(* 1.0 - value, which both handlers show when VUS is selected. *)
Complement(value) == PySub(PyFloat(FlOne), value)

(* VPTab._single: the label it sets, or the error box it opens for an      *)
(* exception.                                                              *)
_single(n, j, m, formula_name, rb_vus) ==
    Call1(LAMBDA value :
            IF IsRaise(value) THEN [tag |-> "error", msg |-> value.exc]
            ELSE [tag |-> "label",
                  formula |-> formula_name,
                  param_type |-> IF rb_vus THEN "VUS" ELSE "VP",
                  text |-> format_4f((IF rb_vus THEN Complement(value) ELSE value).fl)],
          FORMULAS(formula_name, m, n, j))

(* range(s, e + 1, st) for st > 0. *)
range_step(s, e, st) ==
    IF e < s THEN << >> ELSE [i \in 1..((e - s) \div st + 1) |-> s + (i - 1) * st] \o << >>

(* The pass of one formula over the X values: each point's value, 0.0 for  *)
(* a call that raised; the points whose value is not 0 are kept, and shown *)
(* as 1.0 - value under VUS.                                               *)
sweep(name, rng, x_is_n, fn, fj, fm, rb_vus) ==
    Call1(LAMBDA vals :
            Call1(LAMBDA kept :
                    [name |-> name,
                     xs |-> [i \in 1..Len(kept) |-> rng[kept[i]]] \o << >>,
                     ys |-> [i \in 1..Len(kept) |->
                                IF rb_vus THEN Complement(vals[kept[i]]).fl
                                ELSE vals[kept[i]].fl] \o << >>],
                  SelectSeq([i \in 1..Len(rng) |-> i] \o << >>, LAMBDA i : Truthy(vals[i]))),
          [i \in 1..Len(rng) |->
              Call1(LAMBDA val : IF IsRaise(val) THEN PyFloat(FlZero) ELSE val,
                    IF x_is_n THEN FORMULAS(name, fm, rng[i], fj)
                    ELSE FORMULAS(name, rng[i], fn, fj))] \o << >>)

(* The items of lst_vals: every kept value, pass after pass. *)
RECURSIVE list_items(_)
list_items(passes) ==
    IF passes = << >> THEN << >>
    ELSE [i \in 1..Len(Head(passes).ys) |-> format_4f(Head(passes).ys[i])] \o
         list_items(Tail(passes))

fig_w == 10
fig_h == 7

PlotError(msg) == [tag |-> "error", msg |-> msg]

(* VPTab._plot: an error box, or the data set drawn on the preview and in  *)
(* a new window, with the list of values.                                  *)
_plot(x_is_n, s, e, st, fn, fj, fm, checked, rb_vus, chk_log) ==
    IF e < s \/ st <= 0 THEN PlotError("bad X range")
    ELSE Call1(LAMBDA rng :
           IF rng = << >> THEN PlotError("no admissible X")
           ELSE Call1(LAMBDA passes :
                  Call1(LAMBDA dataset :
                          IF dataset = << >> THEN PlotError("all values are 0")
                          ELSE [tag |-> "plot",
                                dataset |-> dataset,
                                lst_vals |-> list_items(passes),
                                title |-> IF x_is_n THEN << "j", fj >> ELSE << "n", fn >>,
                                xlabel |-> IF x_is_n THEN "n" ELSE "m",
                                ylabel |-> IF rb_vus THEN "VUS" ELSE "VP",
                                yscale |-> IF chk_log THEN "log" ELSE "linear",
                                window |-> << fig_w, fig_h >>],
                        SelectSeq(passes, LAMBDA p : p.ys # << >>)),
                  Call1(LAMBDA names :
                          [i \in 1..Len(names) |->
                              sweep(names[i], rng, x_is_n, fn, fj, fm, rb_vus)] \o << >>,
                        SelectSeq(FormulaNames, LAMBDA name : name \in checked))),
           IF x_is_n THEN SelectSeq(range_step(s, e, st), LAMBDA x : x >= fj + 2)
           ELSE range_step(s, e, st))

-----------------------------------------------------------------------------
(* 5. MSS scenarios.  _a and n_mss are memoized and call each other and    *)
(* themselves, so a call is a sequence of steps on a stack of frames: a    *)
(* frame is the function, its arguments and got, the values that the calls *)
(* of its body have returned so far.  The ints of this part are of any     *)
(* size.                                                                   *)

(* math.comb(n, k): ValueError for a negative argument, 0 for k > n. *)
comb(n, k) ==
    IF n < 0 \/ k < 0 THEN PyRaise("ValueError")
    ELSE IF k > n THEN PyInt(0)
    ELSE PyInt(prod(range(n - k + 1, n + 1)) \div prod(range(1, k + 1)))

PyLong(a) == [tag |-> "int", limbs |-> a]

BigOfNat(v) == BigNorm(BigOfInt(v))

(* What a frame does next: it returns val, calls fn(j, k, n) with the k    *)
(* and n of its own, or raises exc.                                        *)
DoReturn(val) == [do |-> "return", fn |-> "", j |-> 0, val |-> val, exc |-> ""]
DoCall(fn, j) == [do |-> "call", fn |-> fn, j |-> j, val |-> << >>, exc |-> ""]
DoRaise(exc)  == [do |-> "raise", fn |-> "", j |-> 0, val |-> << >>, exc |-> exc]

_a_second_base_shifted(j, k, n, got) ==
    IF j = 1 THEN DoReturn(BigOfNat(1))
    ELSE IF j = 2 THEN
        IF IsRaise(comb(n - 1, k)) THEN DoRaise(comb(n - 1, k).exc)
        ELSE IF IsRaise(comb(n - 2, k - 1)) THEN DoRaise(comb(n - 2, k - 1).exc)
        ELSE DoReturn(BigOfNat(comb(n - 1, k).num + comb(n - 2, k - 1).num))
    ELSE IF Len(got) = 0 THEN
        IF IsRaise(comb(n - 2, k - 1)) THEN DoRaise(comb(n - 2, k - 1).exc)
        ELSE IF IsRaise(comb(n - 1, k)) THEN DoRaise(comb(n - 1, k).exc)
        ELSE DoCall("_a", j - 2)
    ELSE IF Len(got) = 1 THEN
        IF IsRaise(comb(n - 2, k)) THEN DoRaise(comb(n - 2, k).exc)
        ELSE DoCall("_a", j - 1)
    ELSE DoReturn(BigNorm(BigAdd(
            BigMul(BigOfNat(comb(n - 2, k - 1).num * comb(n - 1, k).num), got[1]),
            BigMul(BigOfNat(comb(n - 2, k).num), got[2]))))

(* The body of _a(j, k, n): operands left to right. *)
_a(j, k, n, got) ==
    IF j = 1 THEN DoReturn(BigOfNat(1))
    ELSE IF j = 2 THEN
        IF IsRaise(comb(n - 1, k)) THEN DoRaise(comb(n - 1, k).exc)
        ELSE IF IsRaise(comb(n - 2, k)) THEN DoRaise(comb(n - 2, k).exc)
        ELSE DoReturn(BigOfNat(comb(n - 1, k).num + comb(n - 2, k).num))
    ELSE IF Len(got) = 0 THEN
        IF IsRaise(comb(n - 2, k - 1)) THEN DoRaise(comb(n - 2, k - 1).exc)
        ELSE IF IsRaise(comb(n - 1, k)) THEN DoRaise(comb(n - 1, k).exc)
        ELSE DoCall("_a", j - 2)
    ELSE IF Len(got) = 1 THEN
        IF IsRaise(comb(n - 2, k)) THEN DoRaise(comb(n - 2, k).exc)
        ELSE DoCall("_a", j - 1)
    ELSE DoReturn(BigNorm(BigAdd(
            BigMul(BigOfNat(comb(n - 2, k - 1).num * comb(n - 1, k).num), got[1]),
            BigMul(BigOfNat(comb(n - 2, k).num), got[2]))))

n_mss_plus_one(j, k, n, got) ==
    IF j = 1 THEN
        IF IsRaise(comb(n - 2, k - 1)) THEN DoRaise(comb(n - 2, k - 1).exc)
        ELSE DoReturn(BigOfNat(comb(n - 2, k - 1).num))
    ELSE IF Len(got) = 0 THEN DoCall("n_mss", j - 1)
    ELSE IF Len(got) = 1 THEN DoCall("_a", j - 1)
    ELSE IF Len(got) = 2 THEN
        IF got[2] = << >> THEN DoRaise("ZeroDivisionError") ELSE DoCall("_a", j)
    ELSE DoReturn(BigNorm(BigAdd(
            BigMul(BigDivMod(BigPow(got[1], k), IntOfBig(got[2]))[1], got[3]),
            BigOfNat(1))))

(* The body of n_mss(j, k, n): n_mss(j - 1, k, n) ** k // _a(j - 1, k, n)  *)
(* * _a(j, k, n), operands left to right, the division before the product. *)
(* k is not negative here, so ** stays an int.                             *)
n_mss(j, k, n, got) ==
    IF j = 1 THEN
        IF IsRaise(comb(n - 2, k - 1)) THEN DoRaise(comb(n - 2, k - 1).exc)
        ELSE DoReturn(BigOfNat(comb(n - 2, k - 1).num))
    ELSE IF Len(got) = 0 THEN DoCall("n_mss", j - 1)
    ELSE IF Len(got) = 1 THEN DoCall("_a", j - 1)
    ELSE IF Len(got) = 2 THEN
        IF got[2] = << >> THEN DoRaise("ZeroDivisionError") ELSE DoCall("_a", j)
    ELSE DoReturn(BigMul(BigDivMod(BigPow(got[1], k), IntOfBig(got[2]))[1], got[3]))

(* lru_cache: the key of a call is the tuple of its arguments. *)
_make_key(j, k, n) == << j, k, n >>

Frame(fn, j, k, n) == [fn |-> fn, j |-> j, k |-> k, n |-> n, got |-> << >>]

body(f) == IF f.fn = "_a" THEN _a(f.j, f.k, f.n, f.got) ELSE n_mss(f.j, f.k, f.n, f.got)

cache(fn) == IF fn = "_a" THEN cache_a ELSE cache_n

Cached(fn, j, k, n) == _make_key(j, k, n) \in DOMAIN cache(fn)

(* The frames that are left once the top frame has got v, and the result   *)
(* the caller sees.                                                        *)
Deliver(rest, v) ==
    /\ stack' = IF rest = << >> THEN rest
                ELSE [rest EXCEPT ![Len(rest)].got = Append(@, v)]
    /\ result' = IF rest = << >> THEN PyLong(v) ELSE result

Running == [tag |-> "running"]

(* Bodies that have started, per function and key; 2 for more than once.   *)
Started(fn, j, k, n) ==
    LET key == << fn, _make_key(j, k, n) >>
    IN  IF j < 1 THEN evals
        ELSE IF key \in DOMAIN evals THEN [evals EXCEPT ![key] = 2]
        ELSE (key :> 1) @@ evals

MaxJ == 4
MinJ == 1
MaxK == 3
RecursionLimit == 3

JRange == (0 - MinJ)..MaxJ
KRange == 0..MaxK
NRange == 2..MaxArg

(* A session works on one network: the k and n of the bodies it started. *)
SameNet(k, n) == \A key \in DOMAIN evals : key[2][2] = k /\ key[2][3] = n

TopCall(fn) ==
    /\ op = "idle" /\ stack = << >>
    /\ \E j \in JRange, k \in KRange, n \in NRange :
        /\ SameNet(k, n)
        /\ op' = fn
        /\ args' = [j |-> j, k |-> k, n |-> n]
        /\ IF Cached(fn, j, k, n)
           THEN /\ result' = PyLong(cache(fn)[_make_key(j, k, n)])
                /\ UNCHANGED << stack, evals >>
           ELSE /\ result' = Running
                /\ stack' = << Frame(fn, j, k, n) >>
                /\ evals' = Started(fn, j, k, n)
        /\ UNCHANGED << cache_a, cache_n >>

Call_n_mss == TopCall("n_mss")

Call_a == TopCall("_a")

(* The top frame calls a function whose key is in the cache: the wrapper   *)
(* hands the stored value back, the body does not run.                     *)
Hit ==
    /\ stack # << >>
    /\ \E f \in {stack[Len(stack)]} : \E d \in {body(f)} :
           /\ d.do = "call"
           /\ Cached(d.fn, d.j, f.k, f.n)
           /\ stack' = [stack EXCEPT ![Len(stack)].got =
                            Append(@, cache(d.fn)[_make_key(d.j, f.k, f.n)])]
    /\ UNCHANGED << op, args, result, cache_a, cache_n, evals >>

(* The top frame calls a function whose key is not in the cache: its body  *)
(* starts in a new frame.                                                  *)
Invoke ==
    /\ stack # << >>
    /\ Len(stack) < RecursionLimit
    /\ \E f \in {stack[Len(stack)]} : \E d \in {body(f)} :
           /\ d.do = "call"
           /\ ~Cached(d.fn, d.j, f.k, f.n)
           /\ stack' = Append(stack, Frame(d.fn, d.j, f.k, f.n))
           /\ evals' = Started(d.fn, d.j, f.k, f.n)
    /\ UNCHANGED << op, args, result, cache_a, cache_n >>

(* The top frame returns: the wrapper stores the value under the call's    *)
(* key and the caller goes on with it.                                     *)
Finish ==
    /\ stack # << >>
    /\ \E f \in {stack[Len(stack)]} : \E d \in {body(f)} :
       LET key == _make_key(f.j, f.k, f.n)
       IN  /\ d.do = "return"
           /\ cache_a' = IF f.fn = "_a" THEN (key :> d.val) @@ cache_a ELSE cache_a
           /\ cache_n' = IF f.fn = "n_mss" THEN (key :> d.val) @@ cache_n ELSE cache_n
           /\ Deliver(SubSeq(stack, 1, Len(stack) - 1), d.val)
    /\ UNCHANGED << op, args, evals >>

(* The top frame raises, or calls with the stack at its limit: nothing     *)
(* catches the exception, so it leaves every frame, and nothing is stored. *)
Raise ==
    /\ stack # << >>
    /\ \E f \in {stack[Len(stack)]} : \E d \in {body(f)} :
           \/ /\ d.do = "raise"
              /\ result' = PyRaise(d.exc)
           \/ /\ d.do = "call"
              /\ ~Cached(d.fn, d.j, f.k, f.n)
              /\ Len(stack) >= RecursionLimit
              /\ result' = PyRaise("RecursionError")
    /\ stack' = << >>
    /\ UNCHANGED << op, args, cache_a, cache_n, evals >>

-----------------------------------------------------------------------------
(* The caller: one call at a time, whose outcome it then takes. *)

(* utils.validate_params(n, k, j, m): the first failed test raises, None   *)
(* is returned when all pass.                                              *)
validate_params(n, k, j, m) ==
    IF n < 3 THEN PyRaise("ValidationError")
    ELSE IF ~(1 <= k /\ k <= n - 2) THEN PyRaise("ValidationError")
    ELSE IF ~(1 <= j /\ j <= n) THEN PyRaise("ValidationError")
    ELSE IF ~(0 <= m /\ m <= n - 2) THEN PyRaise("ValidationError")
    ELSE IF j < k THEN PyRaise("ValidationError")
    ELSE PyNone

MRange == (0 - MinM)..MaxArg

NoArgs == [n |-> 0]

Init ==
    /\ op = "idle"
    /\ args = NoArgs
    /\ result = PyInt(0)
    /\ cache_a = << >>
    /\ cache_n = << >>
    /\ stack = << >>
    /\ evals = << >>

Call_f_tor ==
    /\ op = "idle"
    /\ \E n \in ArgRange, k \in ArgRange :
        /\ op' = "f_tor"
        /\ args' = [n |-> n, k |-> k]
        /\ result' = f_tor(n, k)
    /\ UNCHANGED mssvars

Call_f_i2p ==
    /\ op = "idle"
    /\ \E n \in ArgRange, k \in ArgRange :
        /\ op' = "f_i2p"
        /\ args' = [n |-> n, k |-> k]
        /\ result' = f_i2p(n, k)
    /\ UNCHANGED mssvars

Call_f1_no_rep ==
    /\ op = "idle"
    /\ \E n \in ArgRange, j \in ArgRange :
        /\ op' = "f1_no_rep"
        /\ args' = [n |-> n, j |-> j]
        /\ result' = f1_no_rep(n, j)
    /\ UNCHANGED mssvars

Call_f2_rep ==
    /\ op = "idle"
    /\ \E j \in ArgRange, n \in ArgRange :
        /\ op' = "f2_rep"
        /\ args' = [j |-> j, n |-> n]
        /\ result' = f2_rep(j, n)
    /\ UNCHANGED mssvars

Call_total_routes ==
    /\ op = "idle"
    /\ \E n \in ArgRange, j \in ArgRange, selector \in Selectors :
        /\ op' = "_total_routes"
        /\ args' = [n |-> n, j |-> j, selector |-> selector]
        /\ result' = _total_routes(n, j, selector)
    /\ UNCHANGED mssvars

Call_safe_routes ==
    /\ op = "idle"
    /\ \E n \in ArgRange, j \in ArgRange, m \in MRange, selector \in Selectors :
        /\ op' = "_safe_routes"
        /\ args' = [n |-> n, j |-> j, m |-> m, selector |-> selector]
        /\ result' = _safe_routes(n, j, m, selector)
    /\ UNCHANGED mssvars

Call_p_m ==
    /\ op = "idle"
    /\ \E n \in ArgRange, j \in ArgRange, m \in MRange,
          given \in Selectors \cup {Omitted} :
        /\ op' = "p_m"
        /\ args' = [n |-> n, j |-> j, m |-> m, selector |-> given]
        /\ result' = p_m(n, j, m, IF given = Omitted THEN p_m_default ELSE given)
    /\ UNCHANGED mssvars

Call_vp ==
    /\ op = "idle"
    /\ \E m \in MRange, n \in ArgRange, j \in ArgRange,
          given \in Selectors \cup {Omitted} :
        /\ op' = "vp"
        /\ args' = [n |-> n, j |-> j, m |-> m, selector |-> given]
        /\ result' = vp(m, n, j, IF given = Omitted THEN vp_default ELSE given)
    /\ UNCHANGED mssvars

Call_vus ==
    /\ op = "idle"
    /\ \E m \in MRange, n \in ArgRange, j \in ArgRange,
          given \in Selectors \cup {Omitted} :
        /\ op' = "vus"
        /\ args' = [n |-> n, j |-> j, m |-> m, selector |-> given]
        /\ result' = vus(m, n, j, IF given = Omitted THEN vus_default ELSE given)
    /\ UNCHANGED mssvars

Call_validate_params ==
    /\ op = "idle"
    /\ \E n \in ArgRange, k \in ArgRange, j \in ArgRange, m \in MRange :
        /\ op' = "validate_params"
        /\ args' = [n |-> n, k |-> k, j |-> j, m |-> m]
        /\ result' = validate_params(n, k, j, m)
    /\ UNCHANGED mssvars

(* The spin boxes of the VP tab: n from 3, j from 1, m from 0; start from  *)
(* 1, stop from 2, step from 1.                                            *)
MaxFix == 2
MaxStep == 2

Call_single ==
    /\ op = "idle"
    /\ \E n \in 3..MaxArg, j \in 1..(MaxArg - 1), m \in 0..(MaxArg - 1),
          formula_name \in {FormulaNames[i] : i \in 1..Len(FormulaNames)},
          rb_vus \in BOOLEAN :
        /\ op' = "_single"
        /\ args' = [n |-> n, j |-> j, m |-> m, formula |-> formula_name, rb_vus |-> rb_vus]
        /\ \E out \in {_single(n, j, m, formula_name, rb_vus)} : result' = out
    /\ UNCHANGED mssvars

Call_plot ==
    /\ op = "idle"
    /\ \E x_is_n \in BOOLEAN, s \in 1..MaxArg, e \in 2..MaxArg, st \in 1..MaxStep,
          fn \in (MaxArg - 1)..MaxArg, fj \in 1..MaxFix, fm \in 0..(MaxFix - 1),
          checked \in SUBSET {FormulaNames[i] : i \in 1..Len(FormulaNames)},
          rb_vus \in BOOLEAN, chk_log \in BOOLEAN :
        /\ op' = "_plot"
        /\ args' = [x_is_n |-> x_is_n, s |-> s, e |-> e, st |-> st,
                    fn |-> fn, fj |-> fj, fm |-> fm, checked |-> checked,
                    rb_vus |-> rb_vus, chk_log |-> chk_log]
        /\ \E out \in {_plot(x_is_n, s, e, st, fn, fj, fm, checked, rb_vus, chk_log)} :
               result' = out
    /\ UNCHANGED mssvars

(* The caller has the outcome and is ready for its next call. *)
Return ==
    /\ op # "idle" /\ stack = << >>
    /\ op' = "idle"
    /\ args' = NoArgs
    /\ result' = PyInt(0)
    /\ UNCHANGED mssvars

Next ==
    \/ Call_f_tor
    \/ Call_f_i2p
    \/ Call_f1_no_rep
    \/ Call_f2_rep
    \/ Call_total_routes
    \/ Call_safe_routes
    \/ Call_p_m
    \/ Call_vp
    \/ Call_vus
    \/ Call_validate_params
    \/ Return

Spec == Init /\ [][Next]_vars

(* Sessions of calls of the memoized functions, step by step. *)
NextMss ==
    \/ Call_n_mss
    \/ Call_a
    \/ Hit
    \/ Invoke
    \/ Finish
    \/ Raise
    \/ Return

SpecMss == Init /\ [][NextMss]_vars

(* The interpreter goes on with a call in progress until it has returned   *)
(* or raised.                                                              *)
MssStep == Hit \/ Invoke \/ Finish \/ Raise

SpecMssFair == SpecMss /\ WF_vars(MssStep)

(* The VP tab: single calculations and sweeps. *)
NextVp ==
    \/ Call_single
    \/ Call_plot
    \/ Return

SpecVp == Init /\ [][NextVp]_vars

-----------------------------------------------------------------------------
(* Properties of the route-counting functions. *)

(* The product of (n - i - 1) for i = 1..k. *)
RECURSIVE TorProduct(_, _)
TorProduct(n, k) == IF k <= 0 THEN 1 ELSE (n - k - 1) * TorProduct(n, k - 1)

(* C1: f_tor(n, k) is the product of (n - i - 1) for i = 1..k when n >= 2  *)
(* and 0 <= k <= n - 2 (1 for k = 0), and 0 when k < 0, n < 2 or k > n - 2. *)
C1_f_tor_product ==
    op = "f_tor" =>
        LET n == args.n
            k == args.k
        IN  /\ (n >= 2 /\ 0 <= k /\ k <= n - 2) => result = PyInt(TorProduct(n, k))
            /\ (n >= 2 /\ k = 0) => result = PyInt(1)
            /\ (k < 0 \/ n < 2 \/ k > n - 2) => result = PyInt(0)

C1_witness ==
    op = "f_tor" /\ args.n = 7 /\ args.k = 3 /\ result = PyInt(60)

(* C2: for every pair (n, k), feasible or not, f_i2p(n, k) is the square of *)
(* f_tor(n, k), and it is 0 exactly when f_tor(n, k) is 0.                  *)
C2_f_i2p_square ==
    op = "f_i2p" =>
        LET t == f_tor(args.n, args.k)
        IN  /\ result = PyInt(t.num * t.num)
            /\ (result.num = 0) <=> (t.num = 0)

C2_witness ==
    op = "f_i2p" /\ args.n = 7 /\ args.k = 3 /\ result = PyInt(3600)

(* The product of (n - m) for m = lo..hi. *)
RECURSIVE FallingProduct(_, _, _)
FallingProduct(n, lo, hi) ==
    IF lo > hi THEN 1 ELSE (n - hi) * FallingProduct(n, lo, hi - 1)

(* The piecewise closed form of the no-repeat count, 1 <= j <= n. *)
F1ClosedForm(n, j) ==
    CASE j = 1 -> IF n - 2 > 0 THEN n - 2 ELSE 0
      [] j = 2 -> (n - 1) + (n - 2) * (n - 2)
      [] j = 3 -> (n - 2) * ((n - 1) + (n - 2) + (n - 2) * (n - 3))
      [] OTHER -> ((n - 1) + (j - 2) * (n - 2) + (n - 2) * (n - j))
                      * FallingProduct(n, 2, j - 1)

(* C3: for 1 <= j <= n, f1_no_rep(n, j) is the piecewise closed form.      *)
C3_f1_closed_form ==
    (op = "f1_no_rep" /\ 1 <= args.j /\ args.j <= args.n) =>
        result = PyInt(F1ClosedForm(args.n, args.j))

C3_witness ==
    op = "f1_no_rep" /\ args.n = 7 /\ args.j = 4 /\ result = PyInt(31 * 20)

(* C4: f1_no_rep(n, j) returns 0, raising nothing, whenever n < j.         *)
C4_f1_zero_below_j ==
    (op = "f1_no_rep" /\ args.n < args.j) => result = PyInt(0)

C4_witness ==
    op = "f1_no_rep" /\ args.n = 3 /\ args.j = 5 /\ result = PyInt(0)

(* C5 as stated: f1_no_rep(n, j) raises ValueError for j >= 4 with j > n.  *)
C5_raises_above_n ==
    (op = "f1_no_rep" /\ args.j >= 4 /\ args.j > args.n) =>
        result = PyRaise("ValueError")

(* C5, amended: f1_no_rep(n, j) raises ValueError when j is outside the    *)
(* handled bands with n >= j, that is for j <= 0 and n >= j; for j >= 4    *)
(* with j > n it returns 0.                                                *)
C5_raises_out_of_band ==
    op = "f1_no_rep" =>
        /\ (args.j <= 0 /\ args.n >= args.j) => result = PyRaise("ValueError")
        /\ (args.j >= 4 /\ args.j > args.n) => result = PyInt(0)

C5_witness ==
    op = "f1_no_rep" /\ args.j = 0 /\ args.n = 2 /\ result = PyRaise("ValueError")

(* C6: for n >= 1 and j >= 0 the numerator (n-1)^(j+1) - (-1)^(j+1) is a   *)
(* multiple of n, and f2_rep(j, n) is the exact quotient.                  *)
C6_f2_exact_division ==
    (op = "f2_rep" /\ args.n >= 1 /\ args.j >= 0) =>
        LET numerator == PowNat(args.n - 1, args.j + 1) - PowNat(0 - 1, args.j + 1)
        IN  /\ IsInt(result)
            /\ result.num * args.n = numerator

C6_witness ==
    op = "f2_rep" /\ args.j = 4 /\ args.n = 7 /\ result = PyInt(1111)

(* C7: f_tor, f_i2p and f2_rep return an int, raising nothing, for every   *)
(* pair of integer arguments.                                              *)
C7_counts_total ==
    op \in {"f_tor", "f_i2p", "f2_rep"} => IsInt(result)

-----------------------------------------------------------------------------
(* Properties of the interception engine. *)

(* C8: _total_routes(n, j, selector) is f2_rep(j, n) for True, f1_no_rep(n, *)
(* j) for False and selector(n, j) for a callable; p_m, vp and vus called   *)
(* without a selector use True.                                             *)
C8_dispatch ==
    /\ op = "_total_routes" =>
           result = CASE args.selector = "True"  -> f2_rep(args.j, args.n)
                      [] args.selector = "False" -> f1_no_rep(args.n, args.j)
                      [] OTHER -> call_selector(args.selector, args.n, args.j)
    /\ (op = "p_m" /\ args.selector = Omitted) =>
           result = p_m(args.n, args.j, args.m, "True")
    /\ (op = "vp" /\ args.selector = Omitted) =>
           result = vp(args.m, args.n, args.j, "True")
    /\ (op = "vus" /\ args.selector = Omitted) =>
           result = vus(args.m, args.n, args.j, "True")

C8_witness ==
    /\ op = "_total_routes" /\ args.selector = "f2_rep"
    /\ args.n = 2 /\ args.j = 5 /\ result = PyInt(13)

BuiltinPolicies == {"True", "False", "f_tor", "f_i2p"}

ValidEngineArgs ==
    /\ args.n >= 2
    /\ 1 <= args.j /\ args.j <= args.n
    /\ 0 <= args.m /\ args.m <= args.n - 2

(* C10: for n >= 2, 1 <= j <= n, 0 <= m <= n - 2 and a built-in policy, the *)
(* safe count is at most the total count, and p_m is total - safe.          *)
C10_safe_le_total ==
    (op = "p_m" /\ args.selector \in BuiltinPolicies /\ ValidEngineArgs) =>
        LET total == _total_routes(args.n, args.j, args.selector)
            safe  == _safe_routes(args.n, args.j, args.m, args.selector)
        IN  /\ IsInt(total) /\ IsInt(safe)
            /\ safe.num <= total.num
            /\ result = PyInt(total.num - safe.num)

C10_witness ==
    /\ op = "p_m" /\ args.selector = "True"
    /\ args.n = 7 /\ args.j = 4 /\ args.m = 2 /\ result = PyInt(1111 - 205)

Bound(given) == IF given = Omitted THEN "True" ELSE given

(* x < y for floats: the sign of x - y, which rounding leaves alone. *)
FlLess(x, y) == FlAdd(x, FlNeg(y)).s = 1

(* C11: for n >= 2, 1 <= j <= n, 0 <= m <= n - 2 and a built-in policy the  *)
(* total count is not negative, 0 <= p_m <= total, and vp and vus are       *)
(* floats in [0, 1].                                                        *)
C11_probability_bounds ==
    (op \in {"p_m", "vp", "vus"} /\ args.selector \in BuiltinPolicies /\
     ValidEngineArgs) =>
        LET total == _total_routes(args.n, args.j, args.selector)
        IN  /\ op = "p_m" =>
                /\ IsInt(total) /\ total.num >= 0
                /\ IsInt(result) /\ 0 <= result.num /\ result.num <= total.num
            /\ op \in {"vp", "vus"} =>
                /\ IsFloat(result)
                /\ ~FlLess(result.fl, FlZero) /\ ~FlLess(FlOne, result.fl)

C11_witness ==
    /\ op = "vp" /\ args.selector = "False"
    /\ args.n = 7 /\ args.j = 4 /\ args.m = 2
    /\ FlLess(FlZero, result.fl) /\ FlLess(result.fl, FlOne)

(* C12: for n >= 2, 1 <= j <= n, 0 <= m <= n - 2 and every policy, vus is  *)
(* the float 1.0 - vp and the float sum vp + vus is 1.0 exactly; and for   *)
(* m = 2, n = 7, j = 4 with repeats, vp is the float 1.0 - vus.            *)
C12_vp_plus_vus_is_one ==
    (op \in {"vp", "vus"} /\ ValidEngineArgs) =>
        LET v == vp(args.m, args.n, args.j, Bound(args.selector))
            u == vus(args.m, args.n, args.j, Bound(args.selector))
        IN  /\ result = IF op = "vp" THEN v ELSE u
            /\ IsFloat(v) /\ IsFloat(u)
            /\ u.fl = FlAdd(FlOne, FlNeg(v.fl))
            /\ FlAdd(v.fl, u.fl) = FlOne
            /\ (args.m = 2 /\ args.n = 7 /\ args.j = 4 /\ Bound(args.selector) = "True") =>
                   v.fl = FlAdd(FlOne, FlNeg(u.fl))

(* vus(1, 3, 2, True) = 1.0 - 2/3, which is not the float nearest to 1/3. *)
C12_witness ==
    /\ op = "vus" /\ args.selector = "True"
    /\ args.m = 1 /\ args.n = 3 /\ args.j = 2
    /\ result = PyFloat(FlAdd(FlOne, FlNeg(FlDivInt(2, 3))))
    /\ result # PyFloat(FlDivInt(1, 3))

(* C13: whenever _total_routes(n, j, selector) is 0, vp returns 0.0 and vus *)
(* returns 1.0, for every m, raising nothing.                               *)
C13_zero_routes ==
    (op \in {"vp", "vus"} /\
     ~IsRaise(_total_routes(args.n, args.j, Bound(args.selector))) /\
     ~Truthy(_total_routes(args.n, args.j, Bound(args.selector)))) =>
        /\ op = "vp"  => result = PyFloat(FlZero)
        /\ op = "vus" => result = PyFloat(FlOne)

C13_witness ==
    /\ op = "vp" /\ args.selector = "True"
    /\ args.n = 2 /\ args.j = 3 /\ args.m = 1 /\ result = PyFloat(FlZero)

(* C14: for each of f_tor, f_i2p, f1_no_rep and f2_rep, every j >= 1 (k for *)
(* the Tor and I2P counts) and every n >= 2, the count for n + 1 nodes is   *)
(* at least the count for n nodes.                                          *)
C14_monotone_in_n ==
    /\ (op = "f_tor" /\ args.k >= 1 /\ args.n >= 2) =>
           IsInt(result) /\ result.num <= f_tor(args.n + 1, args.k).num
    /\ (op = "f_i2p" /\ args.k >= 1 /\ args.n >= 2) =>
           IsInt(result) /\ result.num <= f_i2p(args.n + 1, args.k).num
    /\ (op = "f1_no_rep" /\ args.j >= 1 /\ args.n >= 2) =>
           /\ IsInt(result) /\ IsInt(f1_no_rep(args.n + 1, args.j))
           /\ result.num <= f1_no_rep(args.n + 1, args.j).num
    /\ (op = "f2_rep" /\ args.j >= 1 /\ args.n >= 2) =>
           /\ IsInt(result) /\ IsInt(f2_rep(args.j, args.n + 1))
           /\ result.num <= f2_rep(args.j, args.n + 1).num

C14_witness ==
    /\ op = "f1_no_rep" /\ args.j = 2 /\ args.n = 4
    /\ result = PyInt(7) /\ f1_no_rep(5, 2) = PyInt(13)

(* C17: f_tor(7, 3) = 60, f_i2p(7, 3) = 3600, f1_no_rep(7, 4) = 620 and     *)
(* f2_rep(4, 7) = 1111.                                                     *)
C17_scenarios ==
    /\ (op = "f_tor" /\ args.n = 7 /\ args.k = 3) => result = PyInt(60)
    /\ (op = "f_i2p" /\ args.n = 7 /\ args.k = 3) => result = PyInt(3600)
    /\ (op = "f1_no_rep" /\ args.n = 7 /\ args.j = 4) => result = PyInt(620)
    /\ (op = "f2_rep" /\ args.j = 4 /\ args.n = 7) => result = PyInt(1111)

C17_witness ==
    op = "f2_rep" /\ args = [j |-> 4, n |-> 7] /\ result.num * 7 = 7777

(* C18: when m >= n - 2 and m >= 1, _safe_routes(n, j, m, selector) is 0    *)
(* for every j >= 1 under both built-in policies.                           *)
C18_no_safe_route_left ==
    (op = "_safe_routes" /\ args.selector \in {"True", "False"} /\
     args.n >= 2 /\ args.m >= 1 /\ args.m >= args.n - 2 /\ args.j >= 1) =>
        result = PyInt(0)

-----------------------------------------------------------------------------
(* Properties of the MSS recursion and its caches. *)

ValidNet(k, n) == n >= 3 /\ 1 <= k /\ k <= n - 2

(* The binomial coefficient by Pascal's rule. *)
RECURSIVE Choose(_, _)
Choose(n, k) ==
    IF k = 0 THEN 1
    ELSE IF n = 0 THEN 0
    ELSE Choose(n - 1, k - 1) + Choose(n - 1, k)

(* The reference recursion: A(1) = 1, A(2) = C(n-1, k) + C(n-2, k),        *)
(* A(j) = C(n-2, k-1) * C(n-1, k) * A(j-2) + C(n-2, k) * A(j-1);           *)
(* N(1) = C(n-2, k-1), N(j) = (N(j-1)^k floor-divided by A(j-1)) * A(j).   *)
RECURSIVE RefA(_, _, _)
RefA(j, k, n) ==
    IF j = 1 THEN BigOfNat(1)
    ELSE IF j = 2 THEN BigOfNat(Choose(n - 1, k) + Choose(n - 2, k))
    ELSE Call2(LAMBDA a2, a1 :
                   BigNorm(BigAdd(
                       BigMul(BigOfNat(Choose(n - 2, k - 1) * Choose(n - 1, k)), a2),
                       BigMul(BigOfNat(Choose(n - 2, k)), a1))),
               RefA(j - 2, k, n), RefA(j - 1, k, n))

RECURSIVE RefN(_, _, _)
RefN(j, k, n) ==
    IF j = 1 THEN BigOfNat(Choose(n - 2, k - 1))
    ELSE Call2(LAMBDA n1, a1 :
                   Call2(LAMBDA quotient, a0 : BigMul(quotient, a0),
                         BigDivMod(BigPow(n1, k), IntOfBig(a1))[1], RefA(j, k, n)),
               RefN(j - 1, k, n), RefA(j - 1, k, n))

(* The reference values of every valid key in range, worked out once:     *)
(* RefTable[n][k][j] is << A(j, k, n), N(j, k, n) >>.                      *)
RefTable ==
    [n \in 1..MaxArg |->
        [k \in 1..MaxK |->
            [j \in 1..MaxJ |->
                IF ValidNet(k, n) THEN << RefA(j, k, n), RefN(j, k, n) >> ELSE << >>]
            \o << >>]
        \o << >>]
    \o << >>

A(j, k, n) == RefTable[n][k][j][1]

N(j, k, n) == RefTable[n][k][j][2]

Finished(fn) == op = fn /\ stack = << >>

(* C15: for n >= 3, 1 <= k <= n - 2 and j >= 1, _a and n_mss equal the     *)
(* reference recursion: a call that is not cut off by the recursion limit  *)
(* returns the reference value, every value a frame has got from a call is *)
(* the reference value of the function it called, and so is every value    *)
(* stored in the caches.                                                   *)
C15_reference_recursion ==
    /\ (Finished("_a") /\ args.j >= 1 /\ ValidNet(args.k, args.n)
            /\ result # PyRaise("RecursionError")) =>
           result = PyLong(A(args.j, args.k, args.n))
    /\ (Finished("n_mss") /\ args.j >= 1 /\ ValidNet(args.k, args.n)
            /\ result # PyRaise("RecursionError")) =>
           result = PyLong(N(args.j, args.k, args.n))
    /\ \A key \in DOMAIN cache_a :
           (key[1] >= 1 /\ ValidNet(key[2], key[3])) =>
               cache_a[key] = A(key[1], key[2], key[3])
    /\ \A key \in DOMAIN cache_n :
           (key[1] >= 1 /\ ValidNet(key[2], key[3])) =>
               cache_n[key] = N(key[1], key[2], key[3])
    /\ \A i \in 1..Len(stack) :
           LET f == stack[i]
           IN  (f.j >= 1 /\ ValidNet(f.k, f.n)) =>
                   IF f.fn = "_a"
                   THEN /\ Len(f.got) >= 1 => f.got[1] = A(f.j - 2, f.k, f.n)
                        /\ Len(f.got) >= 2 => f.got[2] = A(f.j - 1, f.k, f.n)
                   ELSE /\ Len(f.got) >= 1 => f.got[1] = N(f.j - 1, f.k, f.n)
                        /\ Len(f.got) >= 2 => f.got[2] = A(f.j - 1, f.k, f.n)
                        /\ Len(f.got) >= 3 => f.got[3] = A(f.j, f.k, f.n)

C15_witness ==
    /\ Finished("n_mss") /\ args = [j |-> 3, k |-> 3, n |-> 7]
    /\ result = PyLong(BigMul(BigOfNat(900000000), BigOfNat(500000)))

(* C16: for n >= 3, 1 <= k <= n - 2 and j >= 2, when n_mss(j, k, n) has    *)
(* N(j-1) and A(j-1), A(j-1) is not 0 and divides N(j-1)^k with no         *)
(* remainder; for k = 3 and n = 7, A is 1, 30, 500, 11000 for j = 1..4,    *)
(* N(1) = 10 and N(2) = 30000.                                             *)
C16_exact_division ==
    /\ \A i \in 1..Len(stack) :
           LET f == stack[i]
           IN  (f.fn = "n_mss" /\ f.j >= 2 /\ ValidNet(f.k, f.n) /\ Len(f.got) >= 2) =>
                   /\ f.got[2] # << >>
                   /\ BigDivMod(BigPow(f.got[1], f.k), IntOfBig(f.got[2]))[2] = 0
    /\ \A key \in DOMAIN cache_a :
           (key[2] = 3 /\ key[3] = 7 /\ key[1] \in 1..4) =>
               cache_a[key] = BigOfNat(<< 1, 30, 500, 11000 >>[key[1]])
    /\ \A key \in DOMAIN cache_n :
           (key[2] = 3 /\ key[3] = 7 /\ key[1] \in 1..2) =>
               cache_n[key] = BigOfNat(<< 10, 30000 >>[key[1]])

C16_witness ==
    /\ Finished("n_mss") /\ args = [j |-> 4, k |-> 3, n |-> 7]
    /\ IsInt(result)
    /\ cache_a[<< 4, 3, 7 >>] = BigOfNat(11000)
    /\ cache_n[<< 2, 3, 7 >>] = BigOfNat(30000)
    /\ BigDivMod(cache_n[<< 4, 3, 7 >>], 11000)[2] = 0

ValidCall(fn) == op = fn /\ args.j >= 1 /\ ValidNet(args.k, args.n)

(* C19: over any sequence of calls of n_mss and _a with valid arguments    *)
(* the caches only grow, a stored entry is never removed or changed, every *)
(* stored entry is the value of the recursion for its key, the body of a   *)
(* key starts at most once, and a call of a key that has an entry returns  *)
(* the value stored for it.                                                *)
C19_memoization ==
    /\ [][/\ \A key \in DOMAIN cache_a :
                 key \in DOMAIN cache_a' /\ cache_a'[key] = cache_a[key]
          /\ \A key \in DOMAIN cache_n :
                 key \in DOMAIN cache_n' /\ cache_n'[key] = cache_n[key]]_vars
    /\ [](\A key \in DOMAIN cache_a :
              (key[1] >= 1 /\ ValidNet(key[2], key[3])) =>
                  cache_a[key] = A(key[1], key[2], key[3]))
    /\ [](\A key \in DOMAIN cache_n :
              (key[1] >= 1 /\ ValidNet(key[2], key[3])) =>
                  cache_n[key] = N(key[1], key[2], key[3]))
    /\ [](\A key \in DOMAIN evals :
              ValidNet(key[2][2], key[2][3]) => evals[key] <= 1)
    /\ [](\A fn \in {"_a", "n_mss"} :
              (Finished(fn) /\ ValidCall(fn) /\ Cached(fn, args.j, args.k, args.n)) =>
                  result = PyLong(cache(fn)[_make_key(args.j, args.k, args.n)]))

BaseCase(f) == f.j = 1 \/ (f.fn = "_a" /\ f.j = 2)

(* C20: for j >= 1 and 1 <= k <= n - 2 a call of n_mss(j, k, n) comes to   *)
(* an end with a value; a call a frame makes of its own function has a     *)
(* smaller j, a call n_mss makes of _a has no larger j, and a frame at a   *)
(* base case makes no call; for j <= 0 no frame of the call is at a base   *)
(* case and the call ends with RecursionError.                             *)
C20_termination ==
    /\ (ValidCall("n_mss") /\ stack # << >>) ~> (ValidCall("n_mss") /\ stack = << >>)
    /\ [](Finished("n_mss") /\ ValidCall("n_mss") => IsInt(result))
    /\ [][(Len(stack') > Len(stack) /\ stack # << >>) =>
             LET f == stack[Len(stack)]
                 g == stack'[Len(stack')]
             IN  IF g.fn = f.fn THEN g.j < f.j ELSE g.j <= f.j]_vars
    /\ [](\A i \in 1..(Len(stack) - 1) : ~BaseCase(stack[i]))
    /\ []((op \in {"_a", "n_mss"} /\ args.j <= 0 /\ ValidNet(args.k, args.n)) =>
              /\ \A i \in 1..Len(stack) : ~BaseCase(stack[i])
              /\ stack = << >> => result = PyRaise("RecursionError"))

-----------------------------------------------------------------------------
(* Properties of the argument checks and of the VP tab. *)

(* C21: f1_no_rep(n, j) raises ValueError if and only if j <= 0 and        *)
(* n >= j; for every other pair it returns an int, which is 0 whenever     *)
(* n < j; it raises nothing but ValueError.                                *)
C21_raises_iff ==
    op = "f1_no_rep" =>
        /\ (result = PyRaise("ValueError")) <=> (args.j <= 0 /\ args.n >= args.j)
        /\ ~(args.j <= 0 /\ args.n >= args.j) => IsInt(result)
        /\ args.n < args.j => result = PyInt(0)
        /\ IsRaise(result) => result.exc = "ValueError"

C21_witness ==
    op = "f1_no_rep" /\ args.j = 0 - 1 /\ args.n = 0 - 1 /\ result = PyRaise("ValueError")

(* What the branch for 4 <= j <= n computes, taken at any j >= 2. *)
GeneralBand(n, j) ==
    ((n - 1) + (j - 2) * (n - 2) + (n - 2) * (n - j))
        * prod([i \in 1..Len(range(2, j)) |-> n - range(2, j)[i]])

(* C22: for j = 2 and j = 3 and every n >= j the special-cased value of    *)
(* f1_no_rep is what the formula of the branch j >= 4 gives at that j, so  *)
(* for all 2 <= j <= n the result is that one formula.                     *)
C22_bands_agree ==
    (op = "f1_no_rep" /\ 2 <= args.j /\ args.j <= args.n) =>
        result = PyInt(GeneralBand(args.n, args.j))

C22_witness ==
    /\ op = "f1_no_rep" /\ args.j = 3 /\ args.n = 7
    /\ result = PyInt(155) /\ GeneralBand(7, 3) = 155 /\ GeneralBand(7, 2) = 31

Accepted(n, k, j, m) == validate_params(n, k, j, m) = PyNone

(* The functions without a cache, on everything validate_params accepts. *)
PureCallsReturn ==
    \A n \in ArgRange, k \in ArgRange, j \in ArgRange, m \in MRange :
        Accepted(n, k, j, m) =>
            /\ IsInt(f1_no_rep(n, j))
            /\ IsInt(f2_rep(j, n))
            /\ IsInt(f_tor(n, k))
            /\ \A selector \in {"True", "False"} :
                   /\ IsFloat(vp(m, n, j, selector))
                   /\ IsFloat(vus(m, n, j, selector))

(* C23: for every (n, k, j, m) that validate_params accepts, f1_no_rep,    *)
(* f2_rep, f_tor, vp and vus under both built-in policies and n_mss all    *)
(* return a value: none of them raises.                                    *)
C23_accepted_never_raises ==
    /\ PureCallsReturn
    /\ (Finished("n_mss") /\ \E m \in MRange : Accepted(args.n, args.k, args.j, m)) =>
           IsInt(result)

(* The policy each core.vp entry of FORMULAS is meant to select. *)
PolicyOf(name) == IF name = "F3 no repeat" THEN "False" ELSE "True"

VpEntries == {"F3 no repeat", "F4 repeat"}

(* What a handler shows for core.vp's value under the entry's policy. *)
Shown(name, m, n, j, rb_vus) ==
    IF rb_vus THEN Complement(vp(m, n, j, PolicyOf(name))).fl
    ELSE vp(m, n, j, PolicyOf(name)).fl

(* The point of a sweep at X = x: its (m, n, j). *)
PointVp(name, x) ==
    IF args.x_is_n THEN vp(args.fm, x, args.fj, PolicyOf(name))
    ELSE vp(x, args.fn, args.fj, PolicyOf(name))

(* C24: the entries F3 (without repeats) and F4 (with repeats) of FORMULAS *)
(* return core.vp(m, n, j) under selector False and selector True and do   *)
(* not raise: a single calculation shows that probability in its label,    *)
(* and a sweep plots every nonzero value of it instead of taking a failed  *)
(* call as 0.0.                                                            *)
C24_entries_return_vp ==
    /\ (op = "_single" /\ args.formula \in VpEntries) =>
           /\ FORMULAS(args.formula, args.m, args.n, args.j)
                  = vp(args.m, args.n, args.j, PolicyOf(args.formula))
           /\ IsFloat(vp(args.m, args.n, args.j, PolicyOf(args.formula))) =>
                  /\ result.tag = "label"
                  /\ result.text
                         = format_4f(Shown(args.formula, args.m, args.n, args.j, args.rb_vus))
    /\ (op = "_plot" /\ (result.tag = "plot" \/ result = PlotError("all values are 0"))) =>
           \A name \in args.checked \cap VpEntries :
               \A x \in args.s..args.e :
                   ( /\ (x - args.s) % args.st = 0
                     /\ args.x_is_n => x >= args.fj + 2
                     /\ IsFloat(PointVp(name, x))
                     /\ Truthy(PointVp(name, x)) ) =>
                       /\ result.tag = "plot"
                       /\ \E i \in 1..Len(result.dataset) :
                              /\ result.dataset[i].name = name
                              /\ \E k \in 1..Len(result.dataset[i].xs) :
                                     result.dataset[i].xs[k] = x

====
